---------------------------- MODULE Spec2Model ----------------------------
(***************************************************************************)
(* Model of the asynchronous job engine of the embedding service:          *)
(*   main.py    module start-up, recover_pending_jobs, submit_job          *)
(*   worker.py  get_model, process_embedding_logic, internal_worker_loop   *)
(*   models.py  the Job table                                              *)
(*   utils.py   calculate_checksum, the input/output directories           *)
(*                                                                         *)
(* One API process (which may be restarted at any time) holds the in-memory*)
(* queue, the request handlers and the internal worker thread.  A Celery   *)
(* worker is a separate process fed by the broker.  The database and the   *)
(* two storage directories outlive every process.  A state of the model is *)
(* what is committed to them plus the position of every handler / worker.  *)
(***************************************************************************)
EXTENDS Integers, Sequences, FiniteSets, TLC

(* ------------------------------ bounds --------------------------------- *)
\* Job records ever created (the table has no bound in the code).
MaxJobs == 2
\* Length of the uploads whose pre-processing is checked character by character.
MaxLen == 3

(* ------------------------------ values --------------------------------- *)
\* A nullable column / optional value: <<>> is NULL, <<v>> is the value v.
NULL == <<>>
Some(v) == <<v>>
IsSet(x) == x # NULL

\* Uploaded byte contents, as sequences of characters ("LF" is \n): a
\* document of two text lines, and a document of blank lines only.
DocA == <<"a", "LF", "b">>
DocB == <<"LF", " ">>
Contents == {DocA, DocB}

\* Request handlers of the event loop that can be in flight together.
Handlers == {"h1", "h2"}
\* The internal worker thread and one Celery worker process (-P solo).
Workers == {"internal", "celery"}

\* Texts str(e) of the exceptions the Processor, pickle or the file system
\* raise; an exception built without arguments has the empty text.
ErrTexts == {"", "error"}

\* models.py JobStatus
QUEUED == "queued"
PROCESSING == "processing"
DONE == "done"
FAILED == "failed"
JobStatus == {QUEUED, PROCESSING, DONE, FAILED}

\* worker.py MODEL_NAME
MODEL_NAME == "BAAI/bge-m3"

\* utils.calculate_checksum: sha256 hex digest, one digest per byte string.
calculate_checksum(data) == <<"sha256", data>>

\* os.path.join(INPUT_DIR, f"{checksum}.bin")
input_path(checksum) == <<"inputs", checksum>>
\* os.path.join(OUTPUT_DIR, f"{output_checksum}.blob")
output_path(checksum) == <<"outputs", checksum>>

\* A file: NULL when the path does not exist, else Some(bytes); a file just
\* opened with "wb" exists and holds no bytes.
EmptyBytes == <<>>
Exists(file) == file # NULL

VARIABLES
  USE_CELERY,       \* main.py:42, fixed by the deployment
  REDIS_AVAILABLE,  \* main.py:41-51, the probe's result (the same at every start)
  sentence_transformers, \* worker.py:46, whether the package can be imported
  phase,            \* position of the API process in main.py's module body
  jobs,             \* the jobs table, in creation order; job_id = index
  inputs,           \* INPUT_DIR:  checksum -> file
  outputs,          \* OUTPUT_DIR: output data -> file
  internal_task_queue, \* worker.py:65
  broker,           \* ids held by the Celery broker, not yet delivered
  pending_jobs,     \* recover_pending_jobs: rows still to be put
  workerUp,         \* the internal worker thread has been started
  hd,               \* per handler: position in submit_job and its locals
  wk,               \* per worker: position in process_embedding_logic, locals
  model,            \* per worker process: worker.py _model
  putLog,           \* internal_task_queue.put calls of this run, in order
  startQueued,      \* ids whose status was queued when this run started
  delivered,        \* ids the broker has delivered at least once
  response,         \* main.py:176-225, the last response of get_result
  document          \* main.py:121, the upload of the pre-processing runs

vars == <<USE_CELERY, REDIS_AVAILABLE, sentence_transformers, phase, jobs,
          inputs, outputs, internal_task_queue, broker, pending_jobs,
          workerUp, hd, wk, model, putLog, startQueued,
          delivered, response, document>>

\* What the job engine itself never writes.
observers == <<response, document>>

Checksums == {calculate_checksum(c) : c \in Contents}
JobIds == 1..MaxJobs
Ids == DOMAIN jobs

\* models.py Job: a row as submit_job creates it.
NewJob(checksum) ==
  [status |-> QUEUED, progress |-> 0, input_checksum |-> checksum,
   output_checksum |-> NULL, blob_path |-> NULL, chunk_count |-> NULL,
   vector_dim |-> NULL, model_id |-> NULL, error_message |-> NULL]

IdleHandler == [pc |-> "idle", content |-> NULL]
IdleWorker == [pc |-> "idle", job_id |-> 0, text |-> NULL,
               lines |-> <<>>, embeddings |-> NULL, output_data |-> NULL]

\* Values of worker.py's _model: None, the loaded model, or "DUMMY".
ModelKinds == {"none", "real", "DUMMY"}


\* A directory as a function from the names in it; a missing name is NULL.
FileAt(dir, name) == IF name \in DOMAIN dir THEN dir[name] ELSE NULL
WriteFile(dir, name, file) ==
  [n \in DOMAIN dir \cup {name} |-> IF n = name THEN file ELSE dir[n]]

\* worker.py:41-59  what importing worker.py leaves in _model: "DUMMY" after
\* an ImportError, else the loaded model, or None when loading raised.
Preloaded ==
  IF sentence_transformers THEN {"none", "real"} ELSE {"DUMMY"}

(* ------------------------------- Init ---------------------------------- *)
\* A fresh deployment: empty table, empty storage, the API process at the top
\* of main.py's start-up code with worker.py already imported.  Only the
\* process whose worker runs has a handle that matters: the API process in
\* stand-alone mode, the Celery worker in Celery mode.
InitAny ==
  /\ USE_CELERY \in BOOLEAN
  /\ REDIS_AVAILABLE \in BOOLEAN
  /\ sentence_transformers \in BOOLEAN
  /\ phase = "import"
  /\ jobs = <<>>
  /\ inputs = <<>>
  /\ outputs = <<>>
  /\ internal_task_queue = <<>>
  /\ broker = <<>>
  /\ pending_jobs = <<>>
  /\ workerUp = FALSE
  /\ hd = [h \in Handlers |-> IdleHandler]
  /\ wk = [w \in Workers |-> IdleWorker]
  /\ \E m \in Preloaded :
       model = [w \in Workers |->
                  IF (w = "celery") = USE_CELERY THEN m ELSE "none"]
  /\ putLog = <<>>
  /\ startQueued = {}
  /\ delivered = {}
  /\ response = NULL

\* The deployments of the service: stand-alone, or Celery with or without a
\* reachable Redis.  (Stand-alone with a reachable Redis never looks at the
\* probe's result: main.py:54, 146.)
Init == InitAny /\ (REDIS_AVAILABLE => USE_CELERY) /\ document = <<>>

(* ------------------------- module start-up ----------------------------- *)
\* internal_task_queue.put(job_id), with the call recorded.
QueuePut(id, by) ==
  /\ internal_task_queue' = Append(internal_task_queue, id)
  /\ putLog' = Append(putLog, [id |-> id, by |-> by])

\* main.py:54-56  stand-alone mode: start_internal_worker()
StartInternalWorker ==
  /\ phase = "import"
  /\ ~USE_CELERY
  /\ workerUp' = TRUE
  /\ phase' = "recover"
  /\ UNCHANGED observers
  /\ UNCHANGED <<USE_CELERY, REDIS_AVAILABLE, sentence_transformers, jobs,
                 inputs, outputs, internal_task_queue, broker, pending_jobs,
                 hd, wk, model, putLog, startQueued, delivered>>

\* main.py:58-59  Celery mode: neither worker thread nor recovery.
StartCeleryMode ==
  /\ phase = "import"
  /\ USE_CELERY
  /\ phase' = "serving"
  /\ UNCHANGED observers
  /\ UNCHANGED <<USE_CELERY, REDIS_AVAILABLE, sentence_transformers, jobs,
                 inputs, outputs, internal_task_queue, broker, pending_jobs,
                 workerUp, hd, wk, model, putLog, startQueued,
                 delivered>>

\* Mutant of RecoverFilter: every unfinished or failed row is recovered.
RecoverNotDone(id) == jobs[id].status # DONE

\* Mutant of RecoverFilter: rows left in processing are recovered too.
RecoverUnfinished(id) == jobs[id].status \in {QUEUED, PROCESSING}

\* main.py:31  the filter of recovery's query
RecoverFilter(id) == jobs[id].status = QUEUED

\* main.py:29-31  db.query(Job).filter(Job.status == QUEUED).all()
RecoverQuery ==
  /\ phase = "recover"
  /\ pending_jobs' = SelectSeq([i \in Ids |-> i], RecoverFilter)
  /\ phase' = "recover_put"
  /\ UNCHANGED observers
  /\ UNCHANGED <<USE_CELERY, REDIS_AVAILABLE, sentence_transformers, jobs,
                 inputs, outputs, internal_task_queue, broker, workerUp, hd,
                 wk, model, putLog, startQueued, delivered>>

\* main.py:32-34  one turn of the loop: internal_task_queue.put(job.job_id)
RecoverPut ==
  /\ phase = "recover_put"
  /\ pending_jobs # <<>>
  /\ QueuePut(Head(pending_jobs), "recovery")
  /\ pending_jobs' = Tail(pending_jobs)
  /\ UNCHANGED observers
  /\ UNCHANGED <<USE_CELERY, REDIS_AVAILABLE, sentence_transformers, phase,
                 jobs, inputs, outputs, broker, workerUp, hd, wk, model,
                 startQueued, delivered>>

\* Mutant of RecoverDone: the loop may be left with rows still to be put.
RecoverDoneEarly ==
  /\ phase = "recover_put"
  /\ phase' = "serving"
  /\ pending_jobs' = <<>>
  /\ UNCHANGED observers
  /\ UNCHANGED <<USE_CELERY, REDIS_AVAILABLE, sentence_transformers, jobs,
                 inputs, outputs, internal_task_queue, broker, workerUp, hd,
                 wk, model, putLog, startQueued, delivered>>

\* main.py:37-65  the loop is over; the app object is built and served.
RecoverDone ==
  /\ phase = "recover_put"
  /\ pending_jobs = <<>>
  /\ phase' = "serving"
  /\ UNCHANGED observers
  /\ UNCHANGED <<USE_CELERY, REDIS_AVAILABLE, sentence_transformers, jobs,
                 inputs, outputs, internal_task_queue, broker, pending_jobs,
                 workerUp, hd, wk, model, putLog, startQueued,
                 delivered>>

(* ---------------------------- submit_job ------------------------------- *)
\* Mutant of Accepting: requests are served as soon as the worker thread runs.
AcceptingEarly == phase # "import"

\* Requests are accepted once the module body has run (uvicorn serves the app).
Accepting == phase = "serving"

\* Rows created plus the submissions in flight, each of which creates one.
Submitted == Len(jobs) + Cardinality({h \in Handlers : hd[h].pc # "idle"})

\* A request is served by the first handler that is free (handlers are
\* interchangeable coroutines of one event loop).
HandlerOrder == <<"h1", "h2">>
FirstFree(h) ==
  \E k \in 1..Len(HandlerOrder) :
    /\ HandlerOrder[k] = h
    /\ \A i \in 1..(k - 1) : hd[HandlerOrder[i]].pc # "idle"

\* main.py:129  os.path.exists(input_path)
InputExists(checksum) == Exists(FileAt(inputs, input_path(checksum)))

\* main.py:146  the backend a submission is handed to
ToCelery == REDIS_AVAILABLE /\ USE_CELERY

\* Mutant of CreateAndDispatch: a submission of content that already has a row
\* creates and enqueues nothing.
CreateOrReuse(checksum) ==
  IF \E id \in Ids : jobs[id].input_checksum = checksum
    THEN UNCHANGED <<jobs, internal_task_queue, broker, putLog>>
    ELSE /\ jobs' = Append(jobs, NewJob(checksum))
         /\ IF ToCelery
              THEN /\ broker' = Append(broker, Len(jobs) + 1)
                   /\ UNCHANGED <<internal_task_queue, putLog>>
              ELSE /\ QueuePut(Len(jobs) + 1, "submit")
                   /\ UNCHANGED broker

\* main.py:134-151  Job(...), db.add, db.commit, db.refresh: a new row with a
\* fresh uuid4 id (the next index of the table); then celery_task.delay(job_id)
\* or internal_task_queue.put(job_id).  No await separates these lines.
CreateAndDispatch(checksum) ==
  /\ jobs' = Append(jobs, NewJob(checksum))
  /\ IF ToCelery
       THEN /\ broker' = Append(broker, Len(jobs) + 1)
            /\ UNCHANGED <<internal_task_queue, putLog>>
       ELSE /\ QueuePut(Len(jobs) + 1, "submit")
            /\ UNCHANGED broker

\* main.py:121-129  read the upload, hash it, find no input file.  The next
\* line awaits aiofiles.open, so other handlers run before the file is opened.
SubmitRead(h, content) ==
  /\ Accepting
  /\ hd[h].pc = "idle"
  /\ FirstFree(h)
  /\ Submitted < MaxJobs
  /\ ~InputExists(calculate_checksum(content))
  /\ hd' = [hd EXCEPT ![h] = [pc |-> "open", content |-> Some(content)]]
  /\ UNCHANGED observers
  /\ UNCHANGED <<USE_CELERY, REDIS_AVAILABLE, sentence_transformers, phase,
                 jobs, inputs, outputs, internal_task_queue, broker,
                 pending_jobs, workerUp, wk, model, putLog, startQueued, delivered>>

\* main.py:121-161  read the upload, hash it, find the input file in place:
\* the handler runs on to its response without an await.
SubmitKnown(h, content) ==
  /\ Accepting
  /\ hd[h].pc = "idle"
  /\ FirstFree(h)
  /\ Submitted < MaxJobs
  /\ InputExists(calculate_checksum(content))
  /\ CreateAndDispatch(calculate_checksum(content))
  /\ UNCHANGED observers
  /\ UNCHANGED <<USE_CELERY, REDIS_AVAILABLE, sentence_transformers, phase,
                 inputs, outputs, pending_jobs, workerUp, hd, wk, model,
                 startQueued, delivered>>

\* main.py:130  aiofiles.open(input_path, 'wb'): creates or truncates the file.
SubmitOpen(h) ==
  /\ Accepting
  /\ hd[h].pc = "open"
  /\ inputs' = WriteFile(inputs,
                         input_path(calculate_checksum(hd[h].content[1])),
                         Some(EmptyBytes))
  /\ hd' = [hd EXCEPT ![h].pc = "write"]
  /\ UNCHANGED observers
  /\ UNCHANGED <<USE_CELERY, REDIS_AVAILABLE, sentence_transformers, phase,
                 jobs, outputs, internal_task_queue, broker, pending_jobs,
                 workerUp, wk, model, putLog, startQueued, delivered>>

\* main.py:131-161  await out_file.write(content) and the close that ends the
\* block; from there the handler runs on to its response without an await.
SubmitWrite(h) ==
  /\ Accepting
  /\ hd[h].pc = "write"
  /\ LET checksum == calculate_checksum(hd[h].content[1]) IN
       /\ inputs' = WriteFile(inputs, input_path(checksum), hd[h].content)
       /\ CreateAndDispatch(checksum)
  /\ hd' = [hd EXCEPT ![h] = IdleHandler]
  /\ UNCHANGED observers
  /\ UNCHANGED <<USE_CELERY, REDIS_AVAILABLE, sentence_transformers, phase,
                 outputs, pending_jobs, workerUp, wk, model, startQueued, delivered>>

(* ------------------------- text pre-processing ------------------------- *)
\* Characters of the modelled byte strings: letters, the blank, "LF" (\n),
\* "#" and "*" (Markdown), "CTL" (a control character such as \x01) and
\* "BAD" (a byte that is not valid UTF-8).
Chars == {"a", "b", " ", "LF", "#", "*", "CTL", "BAD"}
\* Every upload of at most MaxLen characters, the empty one included.
TextDocs == UNION {[1..n -> Chars] : n \in 0..MaxLen}
IsSpace(c) == c = " "

\* worker.py:96  bytes.decode("utf-8", errors="ignore"): invalid bytes vanish.
ValidUtf8(c) == c # "BAD"
decode(bytes) == SelectSeq(bytes, ValidUtf8)

\* worker.py:110  text_data.split('\n')
RECURSIVE split(_)
split(text) ==
  IF \A i \in 1..Len(text) : text[i] # "LF"
    THEN <<text>>
    ELSE LET k == CHOOSE i \in 1..Len(text) :
                    text[i] = "LF" /\ \A j \in 1..(i - 1) : text[j] # "LF"
         IN <<SubSeq(text, 1, k - 1)>> \o split(SubSeq(text, k + 1, Len(text)))

\* utils.py:19  re.sub(r'^#+\s+', '', text): a run of "#" at the start and the
\* white space after it, removed when both are there.
RECURSIVE DropWhile(_, _)
DropWhile(text, c) ==
  IF text # <<>> /\ Head(text) = c THEN DropWhile(Tail(text), c) ELSE text
StripHeader(text) ==
  LET afterHash == DropWhile(text, "#")
      afterSpace == DropWhile(afterHash, " ")
  IN IF afterHash # text /\ afterSpace # afterHash THEN afterSpace ELSE text

\* utils.py:25  emphasis markers removed; utils.py:28 control characters removed
\* (utils.py:22, the link pattern, matches nothing without brackets).
NotEmphasis(c) == c # "*"
NotControl(c) == c # "CTL"

\* utils.py:31  re.sub(r'\s+', ' ', text): every run of white space becomes
\* one blank.
RECURSIVE CollapseSpaces(_)
CollapseSpaces(text) ==
  IF text = <<>> THEN <<>>
  ELSE IF IsSpace(Head(text))
    THEN <<" ">> \o CollapseSpaces(DropWhile(text, " "))
    ELSE <<Head(text)>> \o CollapseSpaces(Tail(text))

\* utils.py:33  str.strip()
RECURSIVE DropLast(_)
DropLast(text) ==
  IF text # <<>> /\ IsSpace(text[Len(text)])
    THEN DropLast(SubSeq(text, 1, Len(text) - 1)) ELSE text
strip(text) == DropLast(DropWhile(text, " "))

\* utils.py:10-33
clean_text(text) ==
  IF text = <<>> THEN <<>>
  ELSE strip(CollapseSpaces(
         SelectSeq(SelectSeq(StripHeader(text), NotEmphasis), NotControl)))

\* worker.py:110-114  the units handed to the model
NonEmpty(line) == line # <<>>

\* Mutant of retained_lines: no placeholder when every line is dropped.
retained_lines_no_placeholder(text_data) ==
  LET raw == split(text_data)
  IN SelectSeq([i \in 1..Len(raw) |-> clean_text(raw[i])], NonEmpty)

retained_lines(text_data) ==
  LET raw == split(text_data)
      lines == SelectSeq([i \in 1..Len(raw) |-> clean_text(raw[i])], NonEmpty)
  IN IF lines = <<>> THEN <<<<" ">>>> ELSE lines

\* worker.py:119-121  model_instance.encode(lines): one vector per line, all
\* of the model's dimension.
encode(lines) == [vectors |-> lines, dim |-> 1024]
\* worker.py:105-107  the dummy result
dummy_embeddings == [vectors |-> <<<<"0.1">>>>, dim |-> 768]
\* worker.py:128  pickle.dumps(embeddings)
pickle_dumps(embeddings) == <<"pickle", embeddings>>

(* ---------------------- process_embedding_logic ------------------------ *)
WorkerFrame ==
  UNCHANGED <<USE_CELERY, REDIS_AVAILABLE, sentence_transformers, phase,
              inputs, pending_jobs, workerUp, hd, putLog, startQueued,
              observers>>

\* Mutant of Fail: the except branch also resets progress.
FailResetsProgress(w, text) ==
  /\ jobs' = [jobs EXCEPT ![wk[w].job_id].status = FAILED,
                          ![wk[w].job_id].progress = 0,
                          ![wk[w].job_id].error_message = Some(text)]
  /\ wk' = [wk EXCEPT ![w] = IdleWorker]

\* worker.py:147-153  the except branch: FAILED with str(e), then back to the
\* caller (the loop, or Celery).
Fail(w, text) ==
  /\ jobs' = [jobs EXCEPT ![wk[w].job_id].status = FAILED,
                          ![wk[w].job_id].error_message = Some(text)]
  /\ wk' = [wk EXCEPT ![w] = IdleWorker]

\* Mutant of NextId: the worker is handed the id put last.
NewestId(w) ==
  IF w = "internal"
    THEN internal_task_queue[Len(internal_task_queue)]
    ELSE broker[Len(broker)]

\* worker.py:159  internal_task_queue.get(timeout=1); for the Celery worker,
\* the message the broker delivers to celery_task.
NextId(w) == IF w = "internal" THEN Head(internal_task_queue) ELSE Head(broker)
Take(w) ==
  IF w = "internal"
    THEN /\ workerUp
         /\ internal_task_queue # <<>>
         /\ internal_task_queue' = Tail(internal_task_queue)
         /\ UNCHANGED <<broker, delivered>>
    ELSE /\ broker # <<>>
         /\ broker' = Tail(broker)
         /\ delivered' = delivered \cup {Head(broker)}
         /\ UNCHANGED internal_task_queue

\* worker.py:82-84  the first write: PROCESSING and progress 10, whatever the
\* row held.
StartProcessing(job) == [job EXCEPT !.status = PROCESSING, !.progress = 10]

\* A row deleted from the table leaves its place behind (job ids are uuids,
\* never issued again), marked GONE.
GONE == "gone"

\* Mutant of HasRow: the worker takes every id ever issued to have a row.
AnyIssuedId(id) == id \in Ids

\* worker.py:74-75  db.query(Job).filter(Job.job_id == job_id).first() finds
\* a row.
HasRow(id) == id \in Ids /\ jobs[id].status # GONE

\* worker.py:159-160, 74-84  take an id, load its row, mark it and commit.
Dequeue(w) ==
  /\ wk[w].pc = "idle"
  /\ Take(w)
  /\ HasRow(NextId(w))
  /\ jobs' = [jobs EXCEPT ![NextId(w)] = StartProcessing(@)]
  /\ wk' = [wk EXCEPT ![w].pc = "check_input", ![w].job_id = NextId(w)]
  /\ UNCHANGED <<outputs, model>>
  /\ WorkerFrame

\* worker.py:159-161, 74-77  take an id, find no row for it: log and return.
DequeueUnknown(w) ==
  /\ wk[w].pc = "idle"
  /\ Take(w)
  /\ ~HasRow(NextId(w))
  /\ UNCHANGED <<jobs, wk, outputs, model>>
  /\ WorkerFrame

\* The input file of the worker's job.
InputFile(w) == FileAt(inputs, input_path(jobs[wk[w].job_id].input_checksum))

\* worker.py:87-92  the file is there: progress 20.
CheckInput(w) ==
  /\ wk[w].pc = "check_input"
  /\ Exists(InputFile(w))
  /\ jobs' = [jobs EXCEPT ![wk[w].job_id].progress = 20]
  /\ wk' = [wk EXCEPT ![w].pc = "read"]
  /\ UNCHANGED <<internal_task_queue, broker, delivered, outputs, model>>
  /\ WorkerFrame

\* worker.py:88-89  the file is not there: FileNotFoundError.
InputMissing(w) ==
  /\ wk[w].pc = "check_input"
  /\ ~Exists(InputFile(w))
  /\ Fail(w, "Input file not found")
  /\ UNCHANGED <<internal_task_queue, broker, delivered, outputs, model>>
  /\ WorkerFrame

\* worker.py:41-52  get_model(): the process's handle, built when it is None
\* (the model, or "DUMMY" after an ImportError).
get_model(w) ==
  IF model[w] # "none" THEN model[w]
  ELSE IF sentence_transformers THEN "real" ELSE "DUMMY"

\* worker.py:94-101  read and decode the file, get the model; progress 30.
ReadInput(w) ==
  /\ wk[w].pc = "read"
  /\ Exists(InputFile(w))
  /\ model' = [model EXCEPT ![w] = get_model(w)]
  /\ wk' = [wk EXCEPT ![w].pc = IF get_model(w) = "DUMMY" THEN "dummy" ELSE "clean",
                      ![w].text = Some(decode(InputFile(w)[1]))]
  /\ jobs' = [jobs EXCEPT ![wk[w].job_id].progress = 30]
  /\ UNCHANGED <<internal_task_queue, broker, delivered, outputs>>
  /\ WorkerFrame

\* worker.py:94  open() of a file removed since the test: FileNotFoundError.
ReadMissing(w) ==
  /\ wk[w].pc = "read"
  /\ ~Exists(InputFile(w))
  /\ Fail(w, "No such file or directory")
  /\ UNCHANGED <<internal_task_queue, broker, delivered, outputs, model>>
  /\ WorkerFrame

\* Mutant of GetModelFails: the handle is built anew for every job, so the
\* construction can fail although a handle is in place.
GetModelFailsAnyJob(w) ==
  /\ wk[w].pc = "read"
  /\ Exists(FileAt(inputs, input_path(jobs[wk[w].job_id].input_checksum)))
  /\ sentence_transformers
  /\ \E text \in ErrTexts : Fail(w, text)
  /\ UNCHANGED <<internal_task_queue, broker, delivered, outputs, model>>
  /\ WorkerFrame

\* worker.py:47, 99  SentenceTransformer(MODEL_NAME) raises something other than
\* ImportError: _model stays None and the exception reaches the except branch.
GetModelFails(w) ==
  /\ wk[w].pc = "read"
  /\ Exists(InputFile(w))
  /\ model[w] = "none"
  /\ sentence_transformers
  /\ \E text \in ErrTexts : Fail(w, text)
  /\ UNCHANGED <<internal_task_queue, broker, delivered, outputs, model>>
  /\ WorkerFrame

\* worker.py:103-107, 123-124  the dummy result; progress 80.
DummyEmbed(w) ==
  /\ wk[w].pc = "dummy"
  /\ wk' = [wk EXCEPT ![w].pc = "serialize",
                      ![w].embeddings = Some(dummy_embeddings)]
  /\ jobs' = [jobs EXCEPT ![wk[w].job_id].progress = 80]
  /\ UNCHANGED <<internal_task_queue, broker, delivered, outputs, model>>
  /\ WorkerFrame

\* worker.py:110-117  clean and filter the lines; progress 40.
CleanLines(w) ==
  /\ wk[w].pc = "clean"
  /\ wk' = [wk EXCEPT ![w].pc = "encode",
                      ![w].lines = retained_lines(wk[w].text[1])]
  /\ jobs' = [jobs EXCEPT ![wk[w].job_id].progress = 40]
  /\ UNCHANGED <<internal_task_queue, broker, delivered, outputs, model>>
  /\ WorkerFrame

\* worker.py:119-124  the model returns; progress 80.
Encode(w) ==
  /\ wk[w].pc = "encode"
  /\ wk' = [wk EXCEPT ![w].pc = "serialize",
                      ![w].embeddings = Some(encode(wk[w].lines))]
  /\ jobs' = [jobs EXCEPT ![wk[w].job_id].progress = 80]
  /\ UNCHANGED <<internal_task_queue, broker, delivered, outputs, model>>
  /\ WorkerFrame

\* worker.py:119  the model raises.
EncodeFails(w) ==
  /\ wk[w].pc = "encode"
  /\ \E text \in ErrTexts : Fail(w, text)
  /\ UNCHANGED <<internal_task_queue, broker, delivered, outputs, model>>
  /\ WorkerFrame

\* worker.py:128  pickle.dumps raises.
SerializeFails(w) ==
  /\ wk[w].pc = "serialize"
  /\ \E text \in ErrTexts : Fail(w, text)
  /\ UNCHANGED <<internal_task_queue, broker, delivered, outputs, model>>
  /\ WorkerFrame

\* worker.py:127-133  pickle.dumps, the checksum of its bytes, and
\* open(output_path, "wb"), which creates or truncates the file.
OpenOutput(w) ==
  /\ wk[w].pc = "serialize"
  /\ LET output_data == pickle_dumps(wk[w].embeddings[1]) IN
       /\ outputs' = WriteFile(outputs,
                               output_path(calculate_checksum(output_data)),
                               Some(EmptyBytes))
       /\ wk' = [wk EXCEPT ![w].pc = "write_output",
                           ![w].output_data = Some(output_data)]
  /\ UNCHANGED <<jobs, internal_task_queue, broker, delivered, model>>
  /\ WorkerFrame

\* The output file of the worker's job.
OutputPath(w) == output_path(calculate_checksum(wk[w].output_data[1]))

\* worker.py:134  f.write(output_data), and the close that ends the block.
WriteOutput(w) ==
  /\ wk[w].pc = "write_output"
  /\ outputs' = WriteFile(outputs, OutputPath(w), wk[w].output_data)
  /\ wk' = [wk EXCEPT ![w].pc = "finish"]
  /\ UNCHANGED <<jobs, internal_task_queue, broker, delivered, model>>
  /\ WorkerFrame

\* worker.py:134  the write raises (disk full): the file stays as opened.
WriteOutputFails(w) ==
  /\ wk[w].pc = "write_output"
  /\ \E text \in ErrTexts : Fail(w, text)
  /\ UNCHANGED <<internal_task_queue, broker, delivered, outputs, model>>
  /\ WorkerFrame

\* Mutant of Completed: chunk_count is left out.
CompletedNoCount(job, w) ==
  [job EXCEPT !.status = DONE,
              !.progress = 100,
              !.output_checksum = Some(calculate_checksum(wk[w].output_data[1])),
              !.blob_path = Some(output_path(calculate_checksum(wk[w].output_data[1]))),
              !.vector_dim = Some(wk[w].embeddings[1].dim),
              !.model_id = Some(MODEL_NAME)]

\* worker.py:137-143  the fields of a finished job
Completed(job, w) ==
  [job EXCEPT !.status = DONE,
              !.progress = 100,
              !.output_checksum = Some(calculate_checksum(wk[w].output_data[1])),
              !.blob_path = Some(OutputPath(w)),
              !.vector_dim = Some(wk[w].embeddings[1].dim),
              !.chunk_count = Some(Len(wk[w].embeddings[1].vectors)),
              !.model_id = Some(MODEL_NAME)]

\* worker.py:136-145  one commit: DONE, progress 100 and the result fields.
Finish(w) ==
  /\ wk[w].pc = "finish"
  /\ jobs' = [jobs EXCEPT ![wk[w].job_id] = Completed(@, w)]
  /\ wk' = [wk EXCEPT ![w] = IdleWorker]
  /\ UNCHANGED <<internal_task_queue, broker, delivered, outputs, model>>
  /\ WorkerFrame

(* ------------------------- internal_worker_loop ------------------------ *)
\* Mutant of LoopSurvives: an exception that reaches the loop ends the thread.
LoopExits == FALSE

\* worker.py:164-166  except Exception: log, sleep a second, go round again.
LoopSurvives == TRUE

LoopFrame ==
  UNCHANGED <<USE_CELERY, REDIS_AVAILABLE, sentence_transformers, phase,
              inputs, outputs, broker, pending_jobs, hd, model, putLog,
              startQueued, delivered, observers>>

\* worker.py:72-74, 147-149, 159-166  the session or the query that loads the
\* row raises: the except branch finds no job to mark, its own exception
\* leaves process_embedding_logic and the loop catches it.  The id is spent.
LoadEscapes ==
  /\ wk["internal"].pc = "idle"
  /\ workerUp
  /\ internal_task_queue # <<>>
  /\ internal_task_queue' = Tail(internal_task_queue)
  /\ workerUp' = LoopSurvives
  /\ UNCHANGED <<jobs, wk>>
  /\ LoopFrame

\* worker.py:147-153, 164-166  the processing raises and so does the commit of
\* the except branch: the row stays as last committed and the exception
\* reaches the loop.
CommitEscapes ==
  /\ wk["internal"].pc \notin {"idle", "finish"}
  /\ wk' = [wk EXCEPT !["internal"] = IdleWorker]
  /\ workerUp' = LoopSurvives
  /\ UNCHANGED <<jobs, internal_task_queue>>
  /\ LoopFrame

(* ----------------------------- get_result ------------------------------ *)
\* Ids a client may ask for: 0 stands for an id that was never issued.
QueryIds == 0..MaxJobs

\* A response: the HTTP status code, and of the body and headers what the
\* outcome carries (NULL where it carries none).
Reply(code, kind, progress, error, body, meta) ==
  [code |-> code, kind |-> kind, progress |-> progress, error |-> error,
   body |-> body, meta |-> meta]

\* main.py:208-218  the metadata headers of a served result
Headers(job) ==
  Some([input_checksum |-> job.input_checksum,
        output_checksum |-> job.output_checksum,
        vector_dim |-> job.vector_dim,
        chunk_count |-> job.chunk_count,
        model_id |-> job.model_id])

\* Mutant of get_result: the status test for "not done" comes first, so a
\* failed job is reported as not ready.
get_result_not_done_first(job_id) ==
  IF job_id \notin Ids
    THEN Reply(404, "not_found", NULL, NULL, NULL, NULL)
  ELSE IF jobs[job_id].status # DONE
    THEN Reply(202, "not_ready", Some(jobs[job_id].progress), NULL, NULL, NULL)
  ELSE IF \/ ~IsSet(jobs[job_id].blob_path)
          \/ ~Exists(FileAt(outputs, jobs[job_id].blob_path[1]))
    THEN Reply(500, "integrity", NULL, NULL, NULL, NULL)
  ELSE Reply(200, "blob", NULL, NULL,
             FileAt(outputs, jobs[job_id].blob_path[1]), Headers(jobs[job_id]))

\* main.py:176-225  get_result: 404 for an unknown id, 400 with the stored
\* message for a failed job, 202 with the progress while the job is not done,
\* 500 when the result file is not there, else the file and its metadata.
get_result(job_id) ==
  IF job_id \notin Ids
    THEN Reply(404, "not_found", NULL, NULL, NULL, NULL)
  ELSE IF jobs[job_id].status = FAILED
    THEN Reply(400, "failed", NULL, Some(jobs[job_id].error_message), NULL, NULL)
  ELSE IF jobs[job_id].status # DONE
    THEN Reply(202, "not_ready", Some(jobs[job_id].progress), NULL, NULL, NULL)
  ELSE IF \/ ~IsSet(jobs[job_id].blob_path)
          \/ ~Exists(FileAt(outputs, jobs[job_id].blob_path[1]))
    THEN Reply(500, "integrity", NULL, NULL, NULL, NULL)
  ELSE Reply(200, "blob", NULL, NULL,
             FileAt(outputs, jobs[job_id].blob_path[1]), Headers(jobs[job_id]))

\* A GET /api/async/embedding/result/{job_id} request, served in one piece
\* (the handler has no await).
GetResult(job_id) ==
  /\ Accepting
  /\ response' = Some([job_id |-> job_id, reply |-> get_result(job_id)])
  /\ UNCHANGED <<USE_CELERY, REDIS_AVAILABLE, sentence_transformers, phase,
                 jobs, inputs, outputs, internal_task_queue, broker,
                 pending_jobs, workerUp, hd, wk, model, putLog, startQueued,
                 delivered, document>>

(* --------------------------- the environment --------------------------- *)
\* The API process dies (kill, power loss) and is started again: the queue,
\* the handlers in flight and the worker thread are gone; the table, the
\* files, the broker and the Celery worker stay; worker.py is imported afresh.
Restart ==
  /\ phase' = "import"
  /\ internal_task_queue' = <<>>
  /\ pending_jobs' = <<>>
  /\ workerUp' = FALSE
  /\ hd' = [h \in Handlers |-> IdleHandler]
  /\ wk' = [wk EXCEPT !["internal"] = IdleWorker]
  /\ \E m \in Preloaded :
       model' = [model EXCEPT !["internal"] = IF USE_CELERY THEN "none" ELSE m]
  /\ putLog' = <<>>
  /\ startQueued' = {id \in Ids : jobs[id].status = QUEUED}
  /\ UNCHANGED observers
  /\ UNCHANGED <<USE_CELERY, REDIS_AVAILABLE, sentence_transformers, jobs,
                 inputs, outputs, broker, delivered>>

\* The broker delivers again an id it has already delivered (at-least-once
\* delivery: a visibility timeout, a lost acknowledgement).
Redeliver ==
  /\ \E id \in delivered :
       /\ \A i \in 1..Len(broker) : broker[i] # id
       /\ broker' = Append(broker, id)
  /\ UNCHANGED observers
  /\ UNCHANGED <<USE_CELERY, REDIS_AVAILABLE, sentence_transformers, phase,
                 jobs, inputs, outputs, internal_task_queue, pending_jobs,
                 workerUp, hd, wk, model, putLog, startQueued,
                 delivered>>

\* Somebody outside the service removes an input file (storage clean-up).
InputVanishes ==
  /\ \E name \in DOMAIN inputs :
       /\ Exists(inputs[name])
       /\ inputs' = [inputs EXCEPT ![name] = NULL]
  /\ UNCHANGED observers
  /\ UNCHANGED <<USE_CELERY, REDIS_AVAILABLE, sentence_transformers, phase,
                 jobs, outputs, internal_task_queue, broker, pending_jobs,
                 workerUp, hd, wk, model, putLog, startQueued,
                 delivered>>

\* Somebody outside the service deletes the row of a job that waits in a
\* queue.
RowVanishes ==
  /\ \E id \in Ids :
       /\ jobs[id].status = QUEUED
       /\ jobs' = [jobs EXCEPT ![id].status = GONE]
  /\ UNCHANGED observers
  /\ UNCHANGED <<USE_CELERY, REDIS_AVAILABLE, sentence_transformers, phase,
                 inputs, outputs, internal_task_queue, broker, pending_jobs,
                 workerUp, hd, wk, model, putLog, startQueued, delivered>>

\* Somebody outside the service removes an output file.
OutputVanishes ==
  /\ \E name \in DOMAIN outputs :
       /\ Exists(outputs[name])
       /\ outputs' = [outputs EXCEPT ![name] = NULL]
  /\ UNCHANGED observers
  /\ UNCHANGED <<USE_CELERY, REDIS_AVAILABLE, sentence_transformers, phase,
                 jobs, inputs, internal_task_queue, broker, pending_jobs,
                 workerUp, hd, wk, model, putLog, startQueued, delivered>>

(* --------------------------- specifications ---------------------------- *)
StartUp ==
  \/ StartInternalWorker
  \/ StartCeleryMode
  \/ RecoverQuery
  \/ RecoverPut
  \/ RecoverDone

Submission ==
  \/ \E h \in Handlers, content \in Contents : SubmitRead(h, content)
  \/ \E h \in Handlers, content \in Contents : SubmitKnown(h, content)
  \/ \E h \in Handlers : SubmitOpen(h)
  \/ \E h \in Handlers : SubmitWrite(h)

WorkerStep(w) ==
  \/ Dequeue(w)
  \/ CheckInput(w)
  \/ ReadInput(w)
  \/ GetModelFails(w)
  \/ DummyEmbed(w)
  \/ CleanLines(w)
  \/ Encode(w)
  \/ EncodeFails(w)
  \/ SerializeFails(w)
  \/ OpenOutput(w)
  \/ WriteOutput(w)
  \/ WriteOutputFails(w)
  \/ Finish(w)

Next ==
  \/ StartUp
  \/ Submission
  \/ \E w \in Workers : WorkerStep(w)
  \/ Restart

\* The service with every job id delivered once per enqueue and the storage
\* left alone.
Spec == Init /\ [][Next]_vars

\* The same with a broker that may deliver an id again.
NextRedelivery == Next \/ Redeliver
SpecRedelivery == Init /\ [][NextRedelivery]_vars

\* The same as Spec with input files that may be removed from outside.
NextVanish ==
  \/ Next
  \/ InputVanishes
  \/ \E w \in Workers : InputMissing(w)
  \/ \E w \in Workers : ReadMissing(w)
SpecVanish == Init /\ [][NextVanish]_vars

(* ------------------------------- claims -------------------------------- *)
Terminal(id) == jobs[id].status \in {DONE, FAILED}
ResultFields(job) ==
  <<job.output_checksum, job.blob_path, job.vector_dim, job.chunk_count,
    job.model_id>>
AllSet(fields) == \A i \in 1..Len(fields) : IsSet(fields[i])
NoneSet(fields) == \A i \in 1..Len(fields) : ~IsSet(fields[i])

\* The edges of the status machine (and staying put).
LegalEdge(a, b) ==
  \/ a = b
  \/ a = QUEUED /\ b = PROCESSING
  \/ a = PROCESSING /\ b \in {DONE, FAILED}

\* C1: every step leaves each row's status where it was or moves it along
\* queued -> processing -> done | failed; rows are never deleted, and a new
\* row starts queued.
C1_StatusEdges ==
  [][/\ \A id \in DOMAIN jobs :
          /\ id \in DOMAIN jobs'
          /\ LegalEdge(jobs[id].status, jobs'[id].status)
     /\ \A id \in DOMAIN jobs' \ DOMAIN jobs : jobs'[id].status = QUEUED]_vars

\* C1 witness: one job has been taken to done and another to failed.
C1_Witness ==
  \E i \in Ids, j \in Ids : jobs[i].status = DONE /\ jobs[j].status = FAILED

\* C2: no step lowers the progress of a row, and a new row starts at 0.
C2_ProgressMonotone ==
  [][/\ \A id \in DOMAIN jobs : jobs'[id].progress >= jobs[id].progress
     /\ \A id \in DOMAIN jobs' \ DOMAIN jobs : jobs'[id].progress = 0]_vars

\* C2 witness: a job failed after the checkpoint 40 and kept that progress,
\* next to a job that went all the way to 100.
C2_Witness ==
  \E i \in Ids, j \in Ids :
    /\ jobs[i].status = FAILED /\ jobs[i].progress = 40
    /\ jobs[j].status = DONE /\ jobs[j].progress = 100

\* C3: in every committed state a row has all five result fields when its
\* status is done and none of them otherwise.
C3_ResultFieldsIffDone ==
  \A id \in Ids :
    IF jobs[id].status = DONE
      THEN AllSet(ResultFields(jobs[id]))
      ELSE NoneSet(ResultFields(jobs[id]))

\* C3 witness: a done row next to a row that failed once its output file had
\* been opened.
C3_Witness ==
  \E i \in Ids, j \in Ids :
    /\ jobs[i].status = DONE
    /\ jobs[j].status = FAILED /\ jobs[j].progress = 80
    /\ \E name \in DOMAIN outputs : Exists(outputs[name])

\* C4: a failed row carries a non-empty error message and no result field,
\* and only failed rows carry an error message.
C4_FailedHasMessage ==
  \A id \in Ids :
    /\ jobs[id].status = FAILED =>
         /\ IsSet(jobs[id].error_message)
         /\ jobs[id].error_message[1] # ""
         /\ NoneSet(ResultFields(jobs[id]))
    /\ IsSet(jobs[id].error_message) => jobs[id].status = FAILED

\* C5: once a row is done or failed no step changes it.
C5_TerminalAbsorbing ==
  [][\A id \in DOMAIN jobs : Terminal(id) => jobs'[id] = jobs[id]]_vars

\* The stand-alone service whose start-up code, handlers and worker thread keep
\* running: a step of the module body, of a handler or of the worker that
\* stays possible is eventually taken (the Processor returns or raises).
StartUpLocal ==
  \/ StartInternalWorker
  \/ RecoverQuery
  \/ RecoverPut
  \/ RecoverDone

\* Submissions of one document (which document is uploaded makes no difference
\* to recovery: the start-up code never looks at a row's checksum).
SubmissionLocal ==
  \/ \E h \in Handlers : SubmitRead(h, DocA)
  \/ \E h \in Handlers : SubmitKnown(h, DocA)
  \/ \E h \in Handlers : SubmitOpen(h)
  \/ \E h \in Handlers : SubmitWrite(h)

NextLocal ==
  \/ StartUpLocal
  \/ SubmissionLocal
  \/ WorkerStep("internal")
  \/ Restart

Fairness ==
  /\ WF_vars(StartUpLocal)
  /\ WF_vars(SubmissionLocal)
  /\ WF_vars(WorkerStep("internal"))
\* main.py:42  USE_CELERY unset or "false"
InitLocal == Init /\ ~USE_CELERY
SpecLocalFair == InitLocal /\ [][NextLocal]_vars /\ Fairness

ByRecovery(entry) == entry.by = "recovery"
BySubmit(entry) == entry.by = "submit"

\* What recovery has put so far is one put per id that was queued at the
\* start, and once the app is served every such id has been put.
RecoveryPutsExact ==
  /\ \A i \in 1..Len(putLog) :
       ByRecovery(putLog[i]) => putLog[i].id \in startQueued
  /\ \A i \in 1..Len(putLog), j \in 1..Len(putLog) :
       (i < j /\ ByRecovery(putLog[i]) /\ ByRecovery(putLog[j]))
         => putLog[i].id # putLog[j].id
  /\ phase = "serving" =>
       \A id \in startQueued : \E i \in 1..Len(putLog) :
         putLog[i] = [id |-> id, by |-> "recovery"]

\* C6: in stand-alone mode recovery puts exactly the ids that were queued at
\* the start of the process, each once; and in a run that is not cut short by
\* another restart each of those jobs ends done or failed.
C6_RecoveryExactAndLive ==
  /\ [](~USE_CELERY => RecoveryPutsExact)
  /\ (<>[][~Restart]_vars) =>
       <>[](~USE_CELERY => \A id \in startQueued : Terminal(id))

\* C6 witness: a process started with two queued rows, recovered both and
\* took both to a terminal status.
C6_Witness ==
  /\ ~USE_CELERY
  /\ phase = "serving"
  /\ Cardinality(startQueued) = 2
  /\ Len(SelectSeq(putLog, ByRecovery)) = 2
  /\ \A id \in startQueued : Terminal(id)

\* A row in processing that no worker holds: its worker died with the process.
Orphan(id) ==
  /\ jobs[id].status = PROCESSING
  /\ \A w \in Workers : wk[w].job_id # id

InSeq(id, seq) == \E i \in 1..Len(seq) : seq[i] = id

\* C7: a row left in processing by a dead worker is on no queue and in no
\* recovery list, and no step (restarts included) changes it or hands it to a
\* worker.
C7_OrphanStaysProcessing ==
  /\ [](\A id \in Ids : Orphan(id) =>
          /\ ~InSeq(id, internal_task_queue)
          /\ ~InSeq(id, pending_jobs)
          /\ ~InSeq(id, broker))
  /\ [][\A id \in DOMAIN jobs : Orphan(id) =>
          /\ jobs'[id] = jobs[id]
          /\ \A w \in Workers : wk'[w].job_id # id]_vars

\* C7 witness: the service is up again with an orphaned row, and has taken a
\* row it enqueued in this run to done.
C7_Witness ==
  /\ phase = "serving"
  /\ \E i \in Ids, j \in Ids :
       /\ Orphan(i) /\ jobs[i].progress = 40
       /\ jobs[j].status = DONE
       /\ \E k \in 1..Len(putLog) : putLog[k].id = j

\* C8: in every run the puts of recovery all come before the puts of
\* submissions and no id is put twice; while the module body runs no handler
\* is in flight, and once requests are served recovery has nothing left to put.
C8_RecoveryBeforeSubmissions ==
  /\ \A i \in 1..Len(putLog), j \in 1..Len(putLog) :
       i < j => /\ putLog[i].id # putLog[j].id
                /\ ~(BySubmit(putLog[i]) /\ ByRecovery(putLog[j]))
  /\ phase # "serving" => \A h \in Handlers : hd[h].pc = "idle"
  /\ phase = "serving" => pending_jobs = <<>>
  /\ phase \in {"recover", "recover_put"} => workerUp

\* C8 witness: a run in which recovery put an id, the worker took it, and a
\* submission then put another.
C8_Witness ==
  /\ Len(putLog) = 2
  /\ ByRecovery(putLog[1])
  /\ BySubmit(putLog[2])
  /\ jobs[putLog[1].id].status = DONE

\* C9: a step creates at most one row; the step that ends a submission creates
\* one; a new row is queued with progress 0 and nothing else set, leaves the
\* other rows alone and has its id appended once to the backend in use, and
\* no other step puts an id for a submission; every row's input file exists
\* under the one name its checksum gives.
C9_OneRowOnePutPerSubmission ==
  /\ [](\A id \in Ids : InputExists(jobs[id].input_checksum))
  /\ [][/\ Len(jobs') \in {Len(jobs), Len(jobs) + 1}
        /\ (\E h \in Handlers :
              hd[h].pc = "write" /\ hd'[h].pc = "idle" /\ phase' = "serving")
             => Len(jobs') = Len(jobs) + 1
        /\ Len(jobs') = Len(jobs) + 1 =>
             /\ jobs'[Len(jobs')] = NewJob(jobs'[Len(jobs')].input_checksum)
             /\ SubSeq(jobs', 1, Len(jobs)) = jobs
             /\ IF ToCelery
                  THEN /\ broker' = Append(broker, Len(jobs'))
                       /\ internal_task_queue' = internal_task_queue
                  ELSE /\ internal_task_queue' =
                            Append(internal_task_queue, Len(jobs'))
                       /\ putLog' = Append(putLog, [id |-> Len(jobs'),
                                                   by |-> "submit"])
                       /\ broker' = broker
        /\ Len(jobs') = Len(jobs) =>
             /\ Len(SelectSeq(putLog', BySubmit))
                  <= Len(SelectSeq(putLog, BySubmit))
             /\ Len(broker') <= Len(broker)]_vars

\* C9 witness: two rows of the same content, one input file, both ids put.
C9_Witness ==
  /\ Len(jobs) = 2
  /\ jobs[1].input_checksum = jobs[2].input_checksum
  /\ Cardinality({name \in DOMAIN inputs : Exists(inputs[name])}) = 1
  /\ InputExists(jobs[1].input_checksum)
  /\ internal_task_queue = <<1, 2>>

\* C10: the input file of a checksum is written at most once: a handler that
\* opens it for writing finds no file of that name.
C10_InputWrittenOnce ==
  [][\A h \in Handlers :
       (hd[h].pc = "open" /\ hd'[h].pc = "write")
         => ~InputExists(calculate_checksum(hd[h].content[1]))]_vars

\* C11: a worker that opens an output file for writing finds no file under
\* that output checksum (an output blob already stored is skipped, so each is
\* written at most once).
C11_OutputWrittenOnce ==
  [][\A w \in Workers :
       (wk[w].pc = "serialize" /\ wk'[w].pc = "write_output")
         => ~Exists(FileAt(outputs,
              output_path(calculate_checksum(wk'[w].output_data[1]))))]_vars

\* One run of the stand-alone service on a fresh deployment (recovery finds
\* nothing to put).
StartUpFresh ==
  \/ StartInternalWorker
  \/ RecoverQuery
  \/ RecoverDone

NextRun ==
  \/ StartUpFresh
  \/ Submission
  \/ WorkerStep("internal")

\* Such a run with clients that ask for results and output files that may be
\* removed from outside.
NextQuery ==
  \/ NextRun
  \/ \E job_id \in QueryIds : GetResult(job_id)
  \/ OutputVanishes
SpecQuery == InitLocal /\ [][NextQuery]_vars

\* The outcome the result query owes a client in the current state.
OwedKind(job_id) ==
  IF job_id \notin Ids THEN "not_found"
  ELSE IF jobs[job_id].status \in {QUEUED, PROCESSING} THEN "not_ready"
  ELSE IF jobs[job_id].status = FAILED THEN "failed"
  ELSE IF /\ IsSet(jobs[job_id].blob_path)
          /\ Exists(FileAt(outputs, jobs[job_id].blob_path[1]))
    THEN "blob"
  ELSE "integrity"

\* C12: a step that answers a result query changes no row and no file, and
\* its answer is the one outcome owed for the job's state: not found for an
\* unknown id; not ready, below the error codes and with the row's progress;
\* the stored error message of a failed row; the blob and the row's metadata
\* of a done row whose file is there; an internal error otherwise.
C12_ResultOutcomes ==
  [][response' # response =>
       /\ jobs' = jobs /\ inputs' = inputs /\ outputs' = outputs
       /\ LET id == response'[1].job_id
              r == response'[1].reply
          IN /\ r.kind = OwedKind(id)
             /\ r.kind = "not_found" => r.code = 404
             /\ r.kind = "not_ready" =>
                  r.code < 400 /\ r.progress = Some(jobs[id].progress)
             /\ r.kind = "failed" =>
                  r.code = 400 /\ r.error = Some(jobs[id].error_message)
             /\ r.kind = "blob" =>
                  /\ r.code = 200
                  /\ r.body = FileAt(outputs, jobs[id].blob_path[1])
                  /\ r.meta[1].output_checksum = jobs[id].output_checksum
                  /\ r.meta[1].chunk_count = jobs[id].chunk_count
                  /\ r.meta[1].vector_dim = jobs[id].vector_dim
             /\ r.kind = "integrity" => r.code = 500]_vars

\* C12 witness: the last query found a done row whose file is gone, in a
\* table that also holds a failed row.
C12_Witness ==
  /\ IsSet(response)
  /\ response[1].reply.kind = "integrity"
  /\ jobs[response[1].job_id].status = DONE
  /\ \E id \in Ids : jobs[id].status = FAILED

\* One run of the stand-alone service with a database that may fail the
\* worker: the worker thread keeps being scheduled and every call it makes
\* returns or raises.
LoopStep ==
  \/ WorkerStep("internal")
  \/ LoadEscapes
  \/ CommitEscapes

NextLoop ==
  \/ StartUpFresh
  \/ Submission
  \/ LoopStep

SpecLoopFair ==
  /\ InitLocal
  /\ [][NextLoop]_vars
  /\ WF_vars(StartUpFresh) /\ WF_vars(Submission) /\ WF_vars(LoopStep)

\* C13: no step of a run ends the worker thread, and the worker ends up idle
\* with an empty queue: every id put on it was taken, whatever became of the
\* jobs before it.
C13_LoopGoesOn ==
  /\ [][workerUp => workerUp']_vars
  /\ <>[](internal_task_queue = <<>> /\ wk["internal"].pc = "idle")

\* C13 witness: in one run a job was abandoned by an exception that reached
\* the loop, and the job put after it was taken to done.
C13_Witness ==
  /\ Len(putLog) = 2
  /\ Orphan(putLog[1].id)
  /\ jobs[putLog[2].id].status = DONE
  /\ workerUp

\* The bytes that were submitted for a job (its checksum names them).
SubmittedBytes(job) == job.input_checksum[2]

\* C14: the step that makes a row done leaves blob_path set, the file there
\* holding bytes whose hash is output_checksum, vector_dim > 0 and chunk_count
\* equal to the number of units pre-processing retains of the submitted bytes.
C14_DoneRecordMatches ==
  [][\A id \in DOMAIN jobs :
       (jobs[id].status # DONE /\ jobs'[id].status = DONE) =>
         /\ IsSet(jobs'[id].blob_path)
         /\ Exists(FileAt(outputs', jobs'[id].blob_path[1]))
         /\ jobs'[id].output_checksum =
              Some(calculate_checksum(FileAt(outputs', jobs'[id].blob_path[1])[1]))
         /\ jobs'[id].vector_dim[1] > 0
         /\ jobs'[id].chunk_count =
              Some(Len(retained_lines(decode(SubmittedBytes(jobs[id])))))]_vars

\* C15: whenever requests are served and submissions go to the Local queue
\* (the flag or the probe is off), the internal worker thread is running, and
\* no id waits on a queue that has no consumer.
C15_DispatchHasConsumer ==
  /\ (phase = "serving" /\ ~ToCelery) => workerUp
  /\ internal_task_queue # <<>> => workerUp

\* Position of an id among the puts of this run (0 when it was not put).
PutIndex(id) ==
  IF \E k \in 1..Len(putLog) : putLog[k].id = id
    THEN CHOOSE k \in 1..Len(putLog) : putLog[k].id = id
    ELSE 0

\* C16: in stand-alone mode at most one job put in this run is in processing,
\* and a job moves to processing only when it was put in this run and every
\* job put before it is done or failed.
C16_FifoOneAtATime ==
  /\ [](~USE_CELERY =>
          Cardinality({id \in Ids : /\ jobs[id].status = PROCESSING
                                    /\ PutIndex(id) > 0}) <= 1)
  /\ [][\A id \in DOMAIN jobs :
          (/\ ~USE_CELERY
           /\ jobs[id].status # PROCESSING
           /\ jobs'[id].status = PROCESSING) =>
            /\ PutIndex(id) > 0
            /\ \A k \in 1..(PutIndex(id) - 1) : Terminal(putLog[k].id)]_vars

\* C16 witness: two ids were put in this run; the first is finished and the
\* worker holds the second, in processing.
C16_Witness ==
  /\ ~USE_CELERY
  /\ Len(putLog) = 2
  /\ Terminal(putLog[1].id)
  /\ jobs[putLog[2].id].status = PROCESSING
  /\ wk["internal"].job_id = putLog[2].id

\* The stand-alone service handed one upload, which may be any byte string of
\* at most MaxLen characters.
InitText == InitAny /\ ~USE_CELERY /\ ~REDIS_AVAILABLE /\ document \in TextDocs

\* main.py:121-131  the one request of such a run.
SubmitText ==
  \/ Submitted = 0 /\ SubmitRead("h1", document)
  \/ SubmitOpen("h1")
  \/ SubmitWrite("h1")

NextText ==
  \/ StartUpFresh
  \/ SubmitText
  \/ WorkerStep("internal")
SpecText == InitText /\ [][NextText]_vars

\* The characters that survive cleaning whatever stands around them.
IsLetter(c) == c \in {"a", "b"}
Letters(text) == SelectSeq(text, IsLetter)
\* The units of a list, one after the other.
RECURSIVE Flatten(_)
Flatten(lines) ==
  IF lines = <<>> THEN <<>> ELSE Head(lines) \o Flatten(Tail(lines))
\* A document in which every line is blank, emphasis or control bytes.
NoText(bytes) ==
  \A i \in 1..Len(bytes) : bytes[i] \in {" ", "LF", "*", "CTL", "BAD"}
\* A cleaned, non-empty line: nothing that cleaning removes, no blank at
\* either end and no two blanks in a row.
CleanedLine(line) ==
  /\ line # <<>>
  /\ \A i \in 1..Len(line) : line[i] \notin {"LF", "*", "CTL", "BAD"}
  /\ ~IsSpace(line[1]) /\ ~IsSpace(line[Len(line)])
  /\ \A i \in 1..(Len(line) - 1) : ~(IsSpace(line[i]) /\ IsSpace(line[i + 1]))
\* The number of lines of a document.
LineCount(bytes) ==
  1 + Cardinality({i \in 1..Len(bytes) : bytes[i] = "LF"})

\* C17: the units pre-processing hands the Processor are never none: of a
\* document without text they are the one placeholder " ", otherwise they are
\* cleaned non-empty lines, at most one per line of the input, holding the
\* input's letters in order; and a job whose document has no text, once done,
\* has chunk_count 1.
C17_AtLeastOneUnit ==
  /\ \A w \in Workers :
       wk[w].pc = "encode" =>
         /\ Len(wk[w].lines) >= 1
         /\ Len(wk[w].lines) <= LineCount(document)
         /\ Letters(Flatten(wk[w].lines)) = Letters(document)
         /\ \/ wk[w].lines = <<<<" ">>>>
            \/ \A i \in 1..Len(wk[w].lines) : CleanedLine(wk[w].lines[i])
         /\ NoText(document) => wk[w].lines = <<<<" ">>>>
  /\ \A id \in Ids :
       (jobs[id].status = DONE /\ NoText(document)) =>
         jobs[id].chunk_count = Some(1)

\* C17 witness: a document of a blank line, a control byte and an invalid
\* byte went through the loaded model and its job is done with one chunk.
C17_Witness ==
  /\ document = <<"LF", "CTL", "BAD">>
  /\ jobs # <<>>
  /\ jobs[1].status = DONE
  /\ jobs[1].chunk_count = Some(1)
  /\ jobs[1].vector_dim = Some(1024)

\* C18: within a process the handle, once built, is never replaced, and a
\* construction is attempted only while there is none; a job that fails in
\* get_model leaves the handle unset, ends failed, changes no other row and
\* leaves the worker running, idle, with its queue as it was.
C18_HandleBuiltOnce ==
  [][Restart \/
     \A w \in Workers :
       /\ model[w] # "none" => model'[w] = model[w]
       /\ (wk[w].pc = "read" /\ wk'[w].pc = "idle") =>
            /\ model[w] = "none"
            /\ model'[w] = "none"
            /\ jobs'[wk[w].job_id].status = FAILED
            /\ \A id \in Ids \ {wk[w].job_id} : jobs'[id] = jobs[id]
            /\ workerUp' = workerUp
            /\ internal_task_queue' = internal_task_queue
            /\ broker' = broker]_vars

\* C18 witness: of two jobs put in this run of the stand-alone service the
\* first failed in get_model (progress still 20) and the second was embedded
\* by the handle built for it, which is in place.
C18_Witness ==
  /\ ~USE_CELERY
  /\ Len(putLog) = 2
  /\ jobs[putLog[1].id].status = FAILED
  /\ jobs[putLog[1].id].progress = 20
  /\ jobs[putLog[2].id].status = DONE
  /\ jobs[putLog[2].id].vector_dim = Some(1024)
  /\ model["internal"] = "real"
  /\ workerUp

\* One run of the service, in either mode, on a fresh deployment whose table
\* loses rows to an outside party.
NextUnknown ==
  \/ StartUpFresh
  \/ StartCeleryMode
  \/ Submission
  \/ \E w \in Workers : WorkerStep(w)
  \/ \E w \in Workers : DequeueUnknown(w)
  \/ RowVanishes
SpecUnknown == Init /\ [][NextUnknown]_vars

\* The queue a worker takes its ids from.
QueueOf(w) == IF w = "internal" THEN internal_task_queue ELSE broker

\* C19: a step in which an idle worker takes from its queue an id whose row
\* is gone changes no row and no file, leaves the worker idle and running,
\* and leaves the ids queued behind it in place.
C19_UnknownIdSkipped ==
  [][\A w \in Workers :
       (/\ wk[w].pc = "idle"
        /\ QueueOf(w) # <<>>
        /\ jobs[Head(QueueOf(w))].status = GONE
        /\ Len(QueueOf(w)') < Len(QueueOf(w))) =>
          /\ QueueOf(w)' = Tail(QueueOf(w))
          /\ jobs' = jobs
          /\ inputs' = inputs
          /\ outputs' = outputs
          /\ wk' = wk
          /\ workerUp' = workerUp]_vars

\* C19 witness: of two ids put in this run of the stand-alone service the
\* first lost its row while queued, and the job put behind it is done.
C19_Witness ==
  /\ ~USE_CELERY
  /\ Len(putLog) = 2
  /\ jobs[putLog[1].id].status = GONE
  /\ jobs[putLog[2].id].status = DONE
  /\ internal_task_queue = <<>>
  /\ workerUp

\* C20: every row that is done has a blob_path, and the file stored there
\* holds, whole, the bytes whose checksum the row records.
C20_DoneBlobComplete ==
  \A id \in Ids :
    jobs[id].status = DONE =>
      /\ IsSet(jobs[id].blob_path)
      /\ Exists(FileAt(outputs, jobs[id].blob_path[1]))
      /\ jobs[id].output_checksum =
           Some(calculate_checksum(FileAt(outputs, jobs[id].blob_path[1])[1]))

\* C21: a worker that reads the input file of its job finds the file in
\* place, holding exactly the bytes that were submitted for that job.
C21_ReadsSubmittedBytes ==
  [][\A w \in Workers :
       (wk[w].pc = "read" /\ wk'[w].pc \in {"clean", "dummy"}) =>
         /\ Exists(InputFile(w))
         /\ InputFile(w) = Some(SubmittedBytes(jobs[wk[w].job_id]))]_vars

=============================================================================
